---- MODULE Spec2Model ----
(***************************************************************************)
(* Model of src/app.py: the HTTP admission handler handle_send_email, the  *)
(* status query get_email_status, the thread pool `executor` and the       *)
(* dispatch job send_email_with_retry / send_email, the status registry    *)
(* email_status and the audit file email_log.csv.                          *)
(*                                                                         *)
(* Abstractions:                                                           *)
(*  - subject and body are represented by "given" (key present in the      *)
(*    JSON) and their length, the only things the code reads of them;      *)
(*  - the recipient is a sequence of characters over Alphabet;             *)
(*  - a row of the audit file keeps the columns Request ID and Status;     *)
(*  - an exception is represented by its text: "smtp" for any failure of   *)
(*    the smtplib block, "io" for a failure of the audit file append.      *)
(***************************************************************************)
EXTENDS Integers, Sequences, FiniteSets, TLC

VARIABLES
    started,       \* the __main__ block has run (initialize_csv_log, app.run)
    USER_EMAIL,    \* os.getenv("USER_EMAIL") is set
    USER_APP_PASSWORD, \* os.getenv("USER_APP_PASSWORD") is set
    transport,     \* behaviour of the mail relay (environment)
    handler,       \* position of the request thread inside handle_send_email
    resp,          \* last HTTP response produced
    jobs,          \* work items submitted to executor, in submission order
    email_status,  \* the dictionary email_status
    csv_file,      \* the file email_log.csv
    io_errors      \* number of appends to email_log.csv that raised so far

vars == <<started, USER_EMAIL, USER_APP_PASSWORD, transport, handler, resp,
          jobs, email_status, csv_file, io_errors>>

----------------------------------------------------------------------------
(* Bounds *)

MaxRequests == 2
MaxRecipientLen == 6
MaxIOErrors == 3
MaxRows == 3

(* Program constants *)

max_workers == 5
retries == 3
delay0 == 5
MaxSubject == 255
MaxBody == 10000

----------------------------------------------------------------------------
(* Strings *)

Alphabet == {"a", "@", "."}

RECURSIVE Strings(_)
Strings(n) ==
    IF n = 0 THEN {<<>>}
    ELSE LET shorter == Strings(n - 1)
         IN shorter \cup {Append(s, c) : s \in {t \in shorter : Len(t) = n - 1}, c \in Alphabet}

NoAt(s, lo, hi) == \A i \in lo..hi : s[i] # "@"

\* re.compile(r"[^@]+@[^@]+\.[^@]+").match(s): the pattern has to match at
\* the start of s; what follows the match is not looked at.
EMAIL_REGEX_match(s) ==
    \E i \in 1..Len(s), j \in 1..Len(s), k \in 1..Len(s) :
        /\ i + 2 <= j /\ j + 2 <= k
        /\ NoAt(s, 1, i)
        /\ s[i + 1] = "@"
        /\ NoAt(s, i + 2, j)
        /\ s[j + 1] = "."
        /\ NoAt(s, j + 2, k)

----------------------------------------------------------------------------
(* Request data *)

None == [given |-> FALSE, len |-> 0, text |-> <<>>]
Str(n) == [given |-> TRUE, len |-> n, text |-> <<>>]
Text(s) == [given |-> TRUE, len |-> Len(s), text |-> s]

NoData == [subject |-> None, recipient |-> None, body |-> None]

\* Python truthiness of data.get(key): None and "" are falsy
Truthy(v) == v.given /\ v.len > 0

\* validate_email_data: the description of the abort, or "" when it returns
validate_email_data_any(data) ==
    IF ~(Truthy(data.subject) \/ Truthy(data.recipient) \/ Truthy(data.body))
    THEN "Missing required fields"
    ELSE IF ~EMAIL_REGEX_match(data.recipient.text)
    THEN "Invalid email format"
    ELSE IF data.subject.len > MaxSubject \/ data.body.len > MaxBody
    THEN "Subject or body exceeds character limits"
    ELSE ""

validate_email_data_ge(data) ==
    IF ~(Truthy(data.subject) /\ Truthy(data.recipient) /\ Truthy(data.body))
    THEN "Missing required fields"
    ELSE IF ~EMAIL_REGEX_match(data.recipient.text)
    THEN "Invalid email format"
    ELSE IF data.subject.len >= MaxSubject \/ data.body.len >= MaxBody
    THEN "Subject or body exceeds character limits"
    ELSE ""

validate_email_data_length_first(data) ==
    IF ~(Truthy(data.subject) /\ Truthy(data.recipient) /\ Truthy(data.body))
    THEN "Missing required fields"
    ELSE IF data.subject.len > MaxSubject \/ data.body.len > MaxBody
    THEN "Subject or body exceeds character limits"
    ELSE IF ~EMAIL_REGEX_match(data.recipient.text)
    THEN "Invalid email format"
    ELSE ""

validate_email_data(data) ==
    IF ~(Truthy(data.subject) /\ Truthy(data.recipient) /\ Truthy(data.body))
    THEN "Missing required fields"
    ELSE IF ~EMAIL_REGEX_match(data.recipient.text)
    THEN "Invalid email format"
    ELSE IF data.subject.len > MaxSubject \/ data.body.len > MaxBody
    THEN "Subject or body exceeds character limits"
    ELSE ""

SubjectValues == {None, Str(0), Str(1), Str(MaxSubject), Str(MaxSubject + 1)}
BodyValues == {None, Str(0), Str(1), Str(MaxBody), Str(MaxBody + 1)}
RecipientValues == {None} \cup {Text(s) : s \in Strings(MaxRecipientLen)}

AllData == [subject : SubjectValues, recipient : RecipientValues, body : BodyValues]

Addr(s) == Text(s)
GoodAddr == <<"a", "@", "a", ".", "a">>

\* the requests posted in the concurrent specification
Requests ==
    { [subject |-> Str(1), recipient |-> Addr(GoodAddr), body |-> Str(1)],
      [subject |-> None, recipient |-> Addr(GoodAddr), body |-> Str(1)],
      [subject |-> Str(1), recipient |-> Addr(<<"a", "@", "a">>), body |-> Str(1)],
      [subject |-> Str(MaxSubject + 1), recipient |-> Addr(GoodAddr), body |-> Str(1)] }

----------------------------------------------------------------------------
(* Identifiers, statuses, audit rows *)

UUID(n) == "u" \o ToString(n)
UUIDs == {UUID(n) : n \in 1..(MaxRequests + 1)}

Issued == {jobs[j].request_id : j \in 1..Len(jobs)}

\* str(uuid.uuid4()): an identifier that was never issued before
uuid4_constant == UUID(1)

uuid4 == CHOOSE u \in UUIDs : u \notin Issued

Errors == {"smtp", "io"}

Sent == "sent"
Failed(e) == "failed (" \o e \o ")"
NotFound == "Request ID not found"
Terminal == {Sent} \cup {Failed(e) : e \in Errors}

Header == [request_id |-> "Request ID", status |-> "Status"]
Row(id, s) == [request_id |-> id, status |-> s]

\* log_email_to_csv, when open(..., "a") and the write succeed
log_email_to_csv(file, id, s) ==
    [exists |-> TRUE, rows |-> Append(file.rows, Row(id, s))]

\* initialize_csv_log
initialize_csv_log(file) ==
    IF ~file.exists THEN [exists |-> TRUE, rows |-> <<Header>>] ELSE file

Records(id) == SelectSeq(csv_file.rows, LAMBDA r : r.request_id = id)

----------------------------------------------------------------------------
(* HTTP responses *)

NoResp == [code |-> 0, text |-> "", request_id |-> "", status |-> ""]
\* abort(400, description=d)
Abort(d) == [code |-> 400, text |-> d, request_id |-> "", status |-> ""]
\* jsonify({"error": d}), 400
Error(d) == [code |-> 400, text |-> d, request_id |-> "", status |-> ""]
Accepted(id) ==
    [code |-> 200, text |-> "Email request processed", request_id |-> id, status |-> ""]
StatusResp(id, s) == [code |-> 200, text |-> "", request_id |-> id, status |-> s]

Idle == [pc |-> "idle", data |-> NoData, request_id |-> ""]

----------------------------------------------------------------------------
(* Transport *)

Transports == {"always_ok", "always_fail", "fail_twice_then_ok", "any"}

\* possible results of the k-th execution of lines 78-81 for one request
TransportOutcomes(k) ==
    CASE transport = "always_ok" -> {"ok"}
      [] transport = "always_fail" -> {"fail"}
      [] transport = "fail_twice_then_ok" -> IF k <= 2 THEN {"fail"} ELSE {"ok"}
      [] OTHER -> {"ok", "fail"}

----------------------------------------------------------------------------
(* Jobs *)

NewJob(id) ==
    [request_id |-> id, pc |-> "queued", attempt |-> 0, delay |-> delay0,
     e |-> "", outcomes |-> <<>>, sleeps |-> <<>>]

\* jobs that hold a worker thread of the pool
Running_nosleep == {j \in 1..Len(jobs) : jobs[j].pc \notin {"queued", "done", "sleep"}}

Running_leak == {j \in 1..Len(jobs) : jobs[j].pc # "queued"}

Running == {j \in 1..Len(jobs) : jobs[j].pc \notin {"queued", "done"}}
Queued == {j \in 1..Len(jobs) : jobs[j].pc = "queued"}


\* the queue of a ThreadPoolExecutor is first in, first out
NextQueued == CHOOSE j \in Queued : \A k \in Queued : j <= k

\* email_status[id] = s
SetStatus(reg, id, s) == (id :> s) @@ reg

\* email_status.get(request_id, "Request ID not found")
Lookup(reg, id) == IF id \in DOMAIN reg THEN reg[id] ELSE NotFound

----------------------------------------------------------------------------
(* Initial state: the module has been imported, nothing has run yet *)

Init ==
    /\ started = FALSE
    /\ USER_EMAIL \in BOOLEAN
    /\ USER_APP_PASSWORD \in BOOLEAN
    /\ transport \in Transports
    /\ handler = Idle
    /\ resp = NoResp
    /\ jobs = <<>>
    /\ email_status = <<>>
    /\ csv_file \in {[exists |-> FALSE, rows |-> <<>>],
                     [exists |-> TRUE, rows |-> <<Header>>]}
    /\ io_errors = 0

----------------------------------------------------------------------------
(* The __main__ block *)

Main ==
    /\ ~started
    /\ csv_file' = initialize_csv_log(csv_file)
    /\ started' = TRUE
    /\ UNCHANGED <<USER_EMAIL, USER_APP_PASSWORD, transport, handler, resp,
                   jobs, email_status, io_errors>>

----------------------------------------------------------------------------
(* POST /send-email *)

\* executor.submit(send_email_with_retry, ..., request_id, ...)
Submit(d, id) ==
    /\ jobs' = Append(jobs, NewJob(id))
    /\ handler' = [pc |-> "respond", data |-> d, request_id |-> id]
    /\ UNCHANGED <<resp, email_status, csv_file, io_errors>>

\* handle_send_email on request.json = d, up to executor.submit; an abort
\* or the credentials check ends the request with a 400 response
Admit_and(d) ==
    /\ LET err == validate_email_data(d) IN
         IF err # ""
         THEN /\ resp' = Abort(err)
              /\ handler' = Idle
              /\ UNCHANGED <<jobs, email_status, csv_file, io_errors>>
         ELSE IF ~USER_EMAIL /\ ~USER_APP_PASSWORD
         THEN /\ resp' = Error("Missing user credentials in .env")
              /\ handler' = Idle
              /\ UNCHANGED <<jobs, email_status, csv_file, io_errors>>
         ELSE Submit(d, uuid4)
    /\ UNCHANGED <<started, USER_EMAIL, USER_APP_PASSWORD, transport>>

Admit(d) ==
    /\ LET err == validate_email_data(d) IN
         IF err # ""
         THEN /\ resp' = Abort(err)
              /\ handler' = Idle
              /\ UNCHANGED <<jobs, email_status, csv_file, io_errors>>
         ELSE IF ~USER_EMAIL \/ ~USER_APP_PASSWORD
         THEN /\ resp' = Error("Missing user credentials in .env")
              /\ handler' = Idle
              /\ UNCHANGED <<jobs, email_status, csv_file, io_errors>>
         ELSE Submit(d, uuid4)
    /\ UNCHANGED <<started, USER_EMAIL, USER_APP_PASSWORD, transport>>

\* a client posts d while the server is running
Post(d) ==
    /\ started
    /\ handler.pc = "idle"
    /\ Len(jobs) < MaxRequests
    /\ Admit(d)

\* the request of the initial state of SpecValidate is handled
PostReceived ==
    /\ handler.pc = "received"
    /\ Admit(handler.data)

\* return jsonify({"message": ..., "request_id": request_id}), 200
Respond_wait ==
    /\ handler.pc = "respond"
    /\ handler.request_id \in DOMAIN email_status
    /\ resp' = IF email_status[handler.request_id] = Sent
               THEN Accepted(handler.request_id)
               ELSE Error(email_status[handler.request_id])
    /\ handler' = Idle
    /\ UNCHANGED <<started, USER_EMAIL, USER_APP_PASSWORD, transport, jobs,
                   email_status, csv_file, io_errors>>

Respond ==
    /\ handler.pc = "respond"
    /\ resp' = Accepted(handler.request_id)
    /\ handler' = Idle
    /\ UNCHANGED <<started, USER_EMAIL, USER_APP_PASSWORD, transport, jobs,
                   email_status, csv_file, io_errors>>

----------------------------------------------------------------------------
(* GET /email-status/<request_id> *)

get_email_status_insert(id) ==
    /\ started
    /\ email_status' = IF id \in DOMAIN email_status THEN email_status
                       ELSE SetStatus(email_status, id, NotFound)
    /\ resp' = StatusResp(id, Lookup(email_status, id))
    /\ UNCHANGED <<started, USER_EMAIL, USER_APP_PASSWORD, transport, handler,
                   jobs, csv_file, io_errors>>

get_email_status(id) ==
    /\ started
    /\ resp' = StatusResp(id, Lookup(email_status, id))
    /\ UNCHANGED <<started, USER_EMAIL, USER_APP_PASSWORD, transport, handler,
                   jobs, email_status, csv_file, io_errors>>

----------------------------------------------------------------------------
(* The dispatch job: send_email_with_retry and send_email on a worker *)

Env == <<started, USER_EMAIL, USER_APP_PASSWORD, transport, handler, resp>>

\* a worker takes the job: attempt = 0, the loop is entered, send_email called
Start(j) ==
    /\ Queued # {}
    /\ j = NextQueued
    /\ Cardinality(Running) < max_workers
    /\ jobs' = [jobs EXCEPT ![j].pc = "smtp"]
    /\ UNCHANGED <<email_status, csv_file, io_errors>>
    /\ UNCHANGED Env

\* lines 64-81: compose the message, connect, starttls, login, send_message
Smtp(j) ==
    /\ jobs[j].pc = "smtp"
    /\ \E o \in TransportOutcomes(Len(jobs[j].outcomes) + 1) :
         jobs' = [jobs EXCEPT ![j].outcomes = Append(@, o),
                              ![j].pc = IF o = "ok" THEN "log_sent" ELSE "log_failed",
                              ![j].e = IF o = "ok" THEN "" ELSE "smtp"]
    /\ UNCHANGED <<email_status, csv_file, io_errors>>
    /\ UNCHANGED Env

\* line 84: log_email_to_csv(..., "sent"); an OSError lands in the except
\* clause of send_email
LogSent(j) ==
    /\ jobs[j].pc = "log_sent"
    /\ \/ /\ csv_file' = log_email_to_csv(csv_file, jobs[j].request_id, Sent)
          /\ jobs' = [jobs EXCEPT ![j].pc = "set_sent"]
          /\ UNCHANGED io_errors
       \/ /\ io_errors < MaxIOErrors
          /\ io_errors' = io_errors + 1
          /\ jobs' = [jobs EXCEPT ![j].pc = "log_failed", ![j].e = "io"]
          /\ UNCHANGED csv_file
    /\ UNCHANGED email_status
    /\ UNCHANGED Env

\* line 97: send_email returned normally, send_email_with_retry returns
Return_continue(job) == [job EXCEPT !.pc = "smtp"]

Return(job) == [job EXCEPT !.pc = "done"]

\* line 85, then the return of line 97
SetSent(j) ==
    /\ jobs[j].pc = "set_sent"
    /\ email_status' = SetStatus(email_status, jobs[j].request_id, Sent)
    /\ jobs' = [jobs EXCEPT ![j] = Return(@)]
    /\ UNCHANGED <<csv_file, io_errors>>
    /\ UNCHANGED Env

\* line 88: log_email_to_csv(..., f"failed ({e})"); an OSError raised here
\* leaves send_email and is caught at line 98
LogFailed(j) ==
    /\ jobs[j].pc = "log_failed"
    /\ \/ /\ csv_file' = log_email_to_csv(csv_file, jobs[j].request_id,
                                          Failed(jobs[j].e))
          /\ jobs' = [jobs EXCEPT ![j].pc = "set_failed"]
          /\ UNCHANGED io_errors
       \/ /\ io_errors < MaxIOErrors
          /\ io_errors' = io_errors + 1
          /\ jobs' = [jobs EXCEPT ![j].pc = "except", ![j].e = "io"]
          /\ UNCHANGED csv_file
    /\ UNCHANGED email_status
    /\ UNCHANGED Env

\* line 89, then the return of line 97
SetFailed(j) ==
    /\ jobs[j].pc = "set_failed"
    /\ email_status' = SetStatus(email_status, jobs[j].request_id,
                                 Failed(jobs[j].e))
    /\ jobs' = [jobs EXCEPT ![j] = Return(@)]
    /\ UNCHANGED <<csv_file, io_errors>>
    /\ UNCHANGED Env

\* lines 98-106: attempt += 1; then either go to sleep, or write the status
\* and leave the loop because attempt < retries is false
Except(j) ==
    /\ jobs[j].pc = "except"
    /\ IF jobs[j].attempt + 1 < retries
       THEN /\ jobs' = [jobs EXCEPT ![j].attempt = @ + 1, ![j].pc = "sleep"]
            /\ UNCHANGED email_status
       ELSE /\ jobs' = [jobs EXCEPT ![j].attempt = @ + 1, ![j].pc = "done"]
            /\ email_status' = SetStatus(email_status, jobs[j].request_id,
                                         Failed(jobs[j].e))
    /\ UNCHANGED <<csv_file, io_errors>>
    /\ UNCHANGED Env

\* lines 102-103: time.sleep(delay); delay *= 2; then the next iteration
\* calls send_email again
Sleep_constant(j) ==
    /\ jobs[j].pc = "sleep"
    /\ jobs' = [jobs EXCEPT ![j].sleeps = Append(@, jobs[j].delay),
                            ![j].e = "",
                            ![j].pc = "smtp"]
    /\ UNCHANGED <<email_status, csv_file, io_errors>>
    /\ UNCHANGED Env

Sleep(j) ==
    /\ jobs[j].pc = "sleep"
    /\ jobs' = [jobs EXCEPT ![j].sleeps = Append(@, jobs[j].delay),
                            ![j].delay = 2 * @,
                            ![j].e = "",
                            ![j].pc = "smtp"]
    /\ UNCHANGED <<email_status, csv_file, io_errors>>
    /\ UNCHANGED Env

Worker(j) ==
    \/ Start(j)
    \/ Smtp(j)
    \/ LogSent(j)
    \/ SetSent(j)
    \/ LogFailed(j)
    \/ SetFailed(j)
    \/ Except(j)
    \/ Sleep(j)

----------------------------------------------------------------------------

Next ==
    \/ Main
    \/ \E d \in Requests : Post(d)
    \/ Respond
    \/ \E id \in UUIDs : get_email_status(id)
    \/ \E j \in 1..Len(jobs) : Start(j)
    \/ \E j \in 1..Len(jobs) : Smtp(j)
    \/ \E j \in 1..Len(jobs) : LogSent(j)
    \/ \E j \in 1..Len(jobs) : SetSent(j)
    \/ \E j \in 1..Len(jobs) : LogFailed(j)
    \/ \E j \in 1..Len(jobs) : SetFailed(j)
    \/ \E j \in 1..Len(jobs) : Except(j)
    \/ \E j \in 1..Len(jobs) : Sleep(j)

Spec == Init /\ [][Next]_vars

----------------------------------------------------------------------------
(* The admission of one request, for every request of AllData: the request  *)
(* has arrived at a running server and handle_send_email is about to run.   *)

InitValidate ==
    /\ started = TRUE
    /\ USER_EMAIL \in BOOLEAN
    /\ USER_APP_PASSWORD \in BOOLEAN
    /\ transport = "any"
    /\ handler \in {[pc |-> "received", data |-> d, request_id |-> ""] : d \in AllData}
    /\ resp = NoResp
    /\ jobs = <<>>
    /\ email_status = <<>>
    /\ csv_file = [exists |-> TRUE, rows |-> <<Header>>]
    /\ io_errors = 0

NextValidate ==
    \/ PostReceived
    \/ Respond

SpecValidate == InitValidate /\ [][NextValidate]_vars

----------------------------------------------------------------------------
(* A burst: more requests than workers have been accepted and answered and  *)
(* every job is still in the queue of the executor. During the burst the    *)
(* relay behaves the same way for every request and the audit file is       *)
(* writable, so that send_email never raises and lines 98-106 are not       *)
(* reached.                                                                 *)

NBurst == max_workers + 1

InitBurst ==
    /\ started = TRUE
    /\ USER_EMAIL = TRUE
    /\ USER_APP_PASSWORD = TRUE
    /\ transport \in Transports \ {"any"}
    /\ handler = Idle
    /\ resp = Accepted(UUID(NBurst))
    /\ jobs = [n \in 1..NBurst |-> NewJob(UUID(n))]
    /\ email_status = <<>>
    /\ csv_file = [exists |-> TRUE, rows |-> <<Header>>]
    /\ io_errors = MaxIOErrors

NextBurst ==
    \/ \E j \in 1..Len(jobs) : Start(j)
    \/ \E j \in 1..Len(jobs) : Smtp(j)
    \/ \E j \in 1..Len(jobs) : LogSent(j)
    \/ \E j \in 1..Len(jobs) : SetSent(j)
    \/ \E j \in 1..Len(jobs) : LogFailed(j)
    \/ \E j \in 1..Len(jobs) : SetFailed(j)

\* every worker thread is scheduled again and again, and the relay answers
\* every attempt
Fairness == \A j \in 1..NBurst : WF_vars(Worker(j))

SpecBurst == InitBurst /\ [][NextBurst]_vars /\ Fairness

----------------------------------------------------------------------------
(* A burst in which one append to the audit file can still raise, so that   *)
(* a job can reach the backoff of lines 102-103 while the pool is full.     *)

InitPool ==
    /\ started = TRUE
    /\ USER_EMAIL = TRUE
    /\ USER_APP_PASSWORD = TRUE
    /\ transport \in {"always_ok", "always_fail"}
    /\ handler = Idle
    /\ resp = Accepted(UUID(NBurst))
    /\ jobs = [n \in 1..NBurst |-> NewJob(UUID(n))]
    /\ email_status = <<>>
    /\ csv_file = [exists |-> TRUE, rows |-> <<Header>>]
    /\ io_errors = MaxIOErrors - 1

NextPool ==
    \/ \E j \in 1..Len(jobs) : Start(j)
    \/ \E j \in 1..Len(jobs) : Smtp(j)
    \/ \E j \in 1..Len(jobs) : LogSent(j)
    \/ \E j \in 1..Len(jobs) : SetSent(j)
    \/ \E j \in 1..Len(jobs) : LogFailed(j)
    \/ \E j \in 1..Len(jobs) : SetFailed(j)
    \/ \E j \in 1..Len(jobs) : Except(j)
    \/ \E j \in 1..Len(jobs) : Sleep(j)

SpecPool == InitPool /\ [][NextPool]_vars

----------------------------------------------------------------------------
(* The audit file under any sequence of calls of initialize_csv_log and     *)
(* log_email_to_csv: the module has been imported and the __main__ block    *)
(* need not have run (the app object served by a WSGI server).              *)

InitCsv ==
    /\ started = FALSE
    /\ USER_EMAIL = TRUE
    /\ USER_APP_PASSWORD = TRUE
    /\ transport = "any"
    /\ handler = Idle
    /\ resp = NoResp
    /\ jobs = <<>>
    /\ email_status = <<>>
    /\ csv_file = [exists |-> FALSE, rows |-> <<>>]
    /\ io_errors = 0

CallInitialize ==
    /\ csv_file' = initialize_csv_log(csv_file)
    /\ UNCHANGED <<started, USER_EMAIL, USER_APP_PASSWORD, transport, handler,
                   resp, jobs, email_status, io_errors>>

CallLog(id, st) ==
    /\ Len(csv_file.rows) < MaxRows
    /\ csv_file' = log_email_to_csv(csv_file, id, st)
    /\ UNCHANGED <<started, USER_EMAIL, USER_APP_PASSWORD, transport, handler,
                   resp, jobs, email_status, io_errors>>

NextCsv ==
    \/ CallInitialize
    \/ \E id \in UUIDs, st \in Terminal : CallLog(id, st)

SpecCsv == InitCsv /\ [][NextCsv]_vars

----------------------------------------------------------------------------
(* Properties *)

JobIds == 1..Len(jobs)
Done(j) == jobs[j].pc = "done"
StatusOf(j) == Lookup(email_status, jobs[j].request_id)

\* identifiers whose 200 response has been returned to the client
Answered ==
    Issued \ (IF handler.pc = "respond" THEN {handler.request_id} ELSE {})

\* what the job itself computed as its outcome, once it has finished
OwnOutcome(job) == IF job.e = "" THEN Sent ELSE Failed(job.e)

Count(s, c) == Cardinality({i \in 1..Len(s) : s[i] = c})
At(s) == CHOOSE i \in 1..Len(s) : s[i] = "@"

\* local@domain.tld: exactly one "@", a non-empty local part and at least
\* one "." in the domain part
HasShape(s) ==
    /\ Count(s, "@") = 1
    /\ At(s) > 1
    /\ \E i \in (At(s) + 1)..Len(s) : s[i] = "."

AllPresent(d) == Truthy(d.subject) /\ Truthy(d.recipient) /\ Truthy(d.body)

\* C1: a status query for the identifier of an accepted request, issued after
\* the 200 response was returned, never answers "Request ID not found"
C1_AcceptedNeverNotFound ==
    resp.status = NotFound => resp.request_id \notin Answered

\* C2: with a transport that fails on every attempt, a finished job has made
\* exactly 3 delivery attempts, its status is Failed with the last error and
\* the audit log holds exactly 3 records for its identifier
C2_AlwaysFailThreeAttempts ==
    transport = "always_fail" =>
        \A j \in JobIds : Done(j) =>
            /\ Len(jobs[j].outcomes) = retries
            /\ StatusOf(j) = Failed("smtp")
            /\ Len(Records(jobs[j].request_id)) = retries

\* C3: with a transport that fails twice and then succeeds, a finished job
\* has status Sent, 3 audit records (two failures, then the success) and has
\* slept 5 and then 10 seconds
C3_FailTwiceThenSent ==
    transport = "fail_twice_then_ok" =>
        \A j \in JobIds : Done(j) =>
            /\ StatusOf(j) = Sent
            /\ Records(jobs[j].request_id) =
                 << Row(jobs[j].request_id, Failed("smtp")),
                    Row(jobs[j].request_id, Failed("smtp")),
                    Row(jobs[j].request_id, Sent) >>
            /\ jobs[j].sleeps = <<delay0, 2 * delay0>>

\* C4: the status entry of a request is written to a terminal value exactly
\* once: a finished job has a terminal entry, and an entry that is Sent or
\* Failed never changes, never returns to Pending and is never removed
C4_TerminalWrittenOnce ==
    /\ [](\A j \in JobIds : Done(j) => StatusOf(j) \in Terminal)
    /\ [][\A id \in DOMAIN email_status :
            email_status[id] \in Terminal =>
                /\ id \in DOMAIN email_status'
                /\ email_status'[id] = email_status[id]]_vars

C4_Witness ==
    /\ Len(jobs) = MaxRequests
    /\ \A j \in JobIds : Done(j) /\ StatusOf(j) \in Terminal
    /\ resp.status \in Terminal

C6_NoConflation ==
    /\ \A j \in JobIds, k \in JobIds :
         jobs[j].request_id = jobs[k].request_id => j = k
    /\ \A id \in DOMAIN email_status :
         \E j \in JobIds :
            /\ jobs[j].request_id = id
            /\ Done(j)
            /\ email_status[id] = OwnOutcome(jobs[j])
    /\ \A j \in JobIds : Done(j) => StatusOf(j) = OwnOutcome(jobs[j])

C6_Witness ==
    \E j \in JobIds, k \in JobIds :
        /\ Done(j) /\ Done(k)
        /\ StatusOf(j) = Sent
        /\ StatusOf(k) \in Terminal \ {Sent}

\* C7: the admission path never waits for delivery and never observes it:
\* the 200 response can be returned whatever the job is doing, it is the
\* same response whatever the job has done, submitting leaves the job in the
\* queue, and the status registry never changes in a step of the handler
C7_AdmissionIndependent ==
    /\ [](handler.pc = "respond" => ENABLED Respond)
    /\ [][/\ Len(jobs') > Len(jobs) =>
               /\ jobs'[Len(jobs')].pc = "queued"
               /\ handler'.pc = "respond"
               /\ resp' = resp
          /\ (handler.pc = "respond" /\ handler'.pc # "respond") =>
               /\ resp' = Accepted(handler.request_id)
               /\ jobs' = jobs
               /\ email_status' = email_status]_vars

C7_Witness ==
    \E j \in JobIds :
        /\ resp = Accepted(jobs[j].request_id)
        /\ jobs[j].pc = "sleep"

\* C8: whenever the status entry of an identifier is Sent or Failed(reason),
\* the audit log has a record for that identifier with the same status
C8_TerminalIsLogged ==
    \A id \in DOMAIN email_status :
        email_status[id] \in Terminal =>
            \E i \in 1..Len(csv_file.rows) :
                csv_file.rows[i] = Row(id, email_status[id])

\* C9: a request in which subject, recipient or body is missing or empty is
\* rejected, no identifier is generated, no job is submitted, and the status
\* registry and the audit log are unchanged
C9_MissingFieldRejected ==
    [][(handler.pc = "received" /\ ~AllPresent(handler.data)) =>
          /\ resp'.code = 400
          /\ resp'.request_id = ""
          /\ handler' = Idle
          /\ jobs' = jobs
          /\ email_status' = email_status
          /\ csv_file' = csv_file]_vars

C9_Witness ==
    /\ resp = Abort("Missing required fields")
    /\ handler = Idle
    /\ jobs = <<>>

\* C10: a request whose fields are present and whose recipient does not have
\* the shape local@domain.tld is rejected with the address-format error
\* (stated for a server whose sender credentials are configured, where the
\* validation alone decides the answer)
C10_BadShapeRejected ==
    [][(/\ handler.pc = "received"
        /\ USER_EMAIL /\ USER_APP_PASSWORD
        /\ AllPresent(handler.data)
        /\ ~HasShape(handler.data.recipient.text)) =>
          /\ resp' = Abort("Invalid email format")
          /\ jobs' = jobs]_vars

\* C11: for a request whose fields are present and whose recipient passes
\* the address check, the length check lets the request through exactly when
\* the subject has at most 255 and the body at most 10000 characters;
\* otherwise the request is rejected with the length error
C11_LengthBoundary ==
    [][(/\ handler.pc = "received"
        /\ AllPresent(handler.data)
        /\ EMAIL_REGEX_match(handler.data.recipient.text)) =>
          IF handler.data.subject.len <= 255 /\ handler.data.body.len <= 10000
          THEN /\ resp'.text # "Subject or body exceeds character limits"
               /\ (USER_EMAIL /\ USER_APP_PASSWORD) =>
                    /\ handler'.pc = "respond"
                    /\ Len(jobs') = Len(jobs) + 1
          ELSE /\ resp' = Abort("Subject or body exceeds character limits")
               /\ handler' = Idle
               /\ jobs' = jobs]_vars

C11_Witness ==
    /\ handler.pc = "respond"
    /\ handler.data.subject.len = 255
    /\ handler.data.body.len = 10000
    /\ Len(jobs) = 1

\* C12 as stated: when the sender email or the sender credential is absent,
\* an otherwise valid request is answered with 400 and the error text
\* "Missing user credentials", before any identifier or job is created
C12_MissingCredentialsText ==
    [][(/\ handler.pc = "received"
        /\ validate_email_data(handler.data) = ""
        /\ (~USER_EMAIL \/ ~USER_APP_PASSWORD)) =>
          /\ resp'.code = 400
          /\ resp'.text = "Missing user credentials"
          /\ jobs' = jobs
          /\ email_status' = email_status
          /\ csv_file' = csv_file]_vars

\* C12 as amended: the error text of the 400 answer is
\* "Missing user credentials in .env"; no identifier is generated, no job is
\* submitted, and the status registry and the audit log are unchanged
C12_MissingCredentials ==
    [][(/\ handler.pc = "received"
        /\ validate_email_data(handler.data) = ""
        /\ (~USER_EMAIL \/ ~USER_APP_PASSWORD)) =>
          /\ resp'.code = 400
          /\ resp'.text = "Missing user credentials in .env"
          /\ resp'.request_id = ""
          /\ handler' = Idle
          /\ jobs' = jobs
          /\ email_status' = email_status
          /\ csv_file' = csv_file]_vars

C12_Witness ==
    /\ resp = Error("Missing user credentials in .env")
    /\ USER_EMAIL /\ ~USER_APP_PASSWORD
    /\ handler = Idle
    /\ jobs = <<>>
    /\ email_status = <<>>

\* C13: at most 5 dispatch jobs execute at the same time, a job sleeping in
\* the retry backoff included; while 5 jobs execute, no queued job can start
Executing == {j \in JobIds : jobs[j].pc \notin {"queued", "done"}}

C13_PoolBound ==
    /\ Cardinality(Executing) <= 5
    /\ Cardinality(Executing) = 5 =>
         \A j \in JobIds : jobs[j].pc = "queued" => ~ENABLED Start(j)

C13_Witness ==
    /\ Cardinality(Executing) = 5
    /\ \E j \in JobIds : jobs[j].pc = "sleep"
    /\ \E j \in JobIds : jobs[j].pc = "queued"

\* C14: a status query never fails and never changes state: it can be
\* answered for every identifier, it answers "Request ID not found" for an
\* identifier absent from the registry and the stored status otherwise, and
\* it leaves the registry, the jobs and the audit log unchanged
C14_QueryIsPure ==
    /\ [](started => \A id \in UUIDs : ENABLED get_email_status(id))
    /\ [][(resp' # resp /\ resp'.status # "") =>
            /\ resp'.code = 200
            /\ resp'.status = IF resp'.request_id \in DOMAIN email_status
                              THEN email_status[resp'.request_id]
                              ELSE "Request ID not found"
            /\ email_status' = email_status
            /\ jobs' = jobs
            /\ csv_file' = csv_file
            /\ handler' = handler]_vars

C14_Witness ==
    /\ resp.code = 200
    /\ resp.status = "Request ID not found"
    /\ resp.request_id \notin DOMAIN email_status
    /\ \E id \in DOMAIN email_status : email_status[id] \in Terminal

\* C15: within one request every delivery attempt has appended its audit
\* record before the next attempt begins and before the status entry is
\* written, and no delivery attempt happens once the status is terminal
C15_AttemptLoggedBeforeNext ==
    \A j \in JobIds :
        /\ jobs[j].pc = "smtp" =>
             Len(Records(jobs[j].request_id)) = Len(jobs[j].outcomes)
        /\ StatusOf(j) \in Terminal =>
             /\ Len(Records(jobs[j].request_id)) = Len(jobs[j].outcomes)
             /\ jobs[j].pc = "done"

Pow2(n) == 2 ^ n
Min(a, b) == IF a < b THEN a ELSE b

\* C16: in send_email_with_retry the k-th sleep lasts delay * 2^(k-1)
\* seconds; the job has slept once for each call of send_email that raised,
\* except for the retries-th one, and a call that returns is followed by no
\* sleep (an attempt is a call of send_email, it fails when the call raises)
C16_Backoff ==
    \A j \in JobIds :
        /\ \A k \in 1..Len(jobs[j].sleeps) :
             jobs[j].sleeps[k] = delay0 * Pow2(k - 1)
        /\ Len(jobs[j].sleeps) =
             IF jobs[j].pc = "sleep" THEN jobs[j].attempt - 1
             ELSE Min(jobs[j].attempt, retries - 1)
        /\ Done(j) /\ jobs[j].attempt < retries =>
             Len(jobs[j].sleeps) = jobs[j].attempt

C16_Witness ==
    \E j \in JobIds :
        /\ Done(j)
        /\ jobs[j].attempt = retries
        /\ jobs[j].sleeps = <<5, 10>>

Oks(j) == Cardinality({k \in 1..Len(jobs[j].outcomes) : jobs[j].outcomes[k] = "ok"})

\* C19: once server.send_message has returned for a request, the transport
\* is never invoked again for it: at most one transmission succeeds per
\* request and a successful transmission is the last one
C19_NoDuplicateDelivery ==
    \A j \in JobIds :
        /\ Oks(j) <= 1
        /\ \A k \in 1..Len(jobs[j].outcomes) :
             jobs[j].outcomes[k] = "ok" => k = Len(jobs[j].outcomes)

\* C20: once a job has finished, its status is "sent" if and only if the
\* transport transmitted the message, and it is "failed (...)" if and only
\* if every delivery attempt failed in the transport
C20_StatusFaithful ==
    \A j \in JobIds : Done(j) =>
        /\ StatusOf(j) = Sent <=> Oks(j) >= 1
        /\ StatusOf(j) \in Terminal \ {Sent} <=> Oks(j) = 0

\* C17: validate_email_data reports the error of the first failing check,
\* in the order required fields, recipient address, lengths: a request with
\* a missing field gets the missing-field error whatever else is wrong with
\* it, and a request whose recipient fails the address check gets the
\* address error even when its subject or body is too long
C17_FirstFailingCheck ==
    [][handler.pc = "received" =>
          /\ ~AllPresent(handler.data) =>
               resp' = Abort("Missing required fields")
          /\ (/\ AllPresent(handler.data)
              /\ ~EMAIL_REGEX_match(handler.data.recipient.text)) =>
               resp' = Abort("Invalid email format")
          /\ (/\ AllPresent(handler.data)
              /\ EMAIL_REGEX_match(handler.data.recipient.text)
              /\ (handler.data.subject.len > 255 \/ handler.data.body.len > 10000)) =>
               resp' = Abort("Subject or body exceeds character limits")]_vars

C17_Witness ==
    /\ resp = Abort("Invalid email format")
    /\ handler = Idle
    /\ jobs = <<>>

\* C18: the audit log is append-only with a header created once: every
\* prior content is a prefix of the current content, the header row is
\* written only when the store did not exist, and whenever the store is
\* created its first row is the header
C18_AppendOnlyHeaderOnce ==
    [][/\ Len(csv_file'.rows) >= Len(csv_file.rows)
       /\ SubSeq(csv_file'.rows, 1, Len(csv_file.rows)) = csv_file.rows
       /\ (/\ Len(csv_file'.rows) > Len(csv_file.rows)
           /\ csv_file'.rows[Len(csv_file'.rows)] = Header) => ~csv_file.exists
       /\ (~csv_file.exists /\ csv_file'.exists) =>
             csv_file'.rows[1] = Header]_vars

====
